---------------------------- MODULE Spec2Model ----------------------------
(***************************************************************************)
(* Flood-risk-weighted routing engine of chennai-floodguard                *)
(* (public/models/chennai_safe_shortest_path_with_map.py).                 *)
(*                                                                         *)
(* Number representation.  The program computes on floats; the model       *)
(* computes on exact integers:                                             *)
(*   - a coordinate is a pair <<lat, lon>> of grid steps, one step being   *)
(*     250 m on the ground (half the default hazard radius);               *)
(*   - a value in km is held in hundredths of a km (so 0.5 km is 50);      *)
(*   - length = km * 1000 is held in hundredths of a metre;                *)
(*   - risk = 1 - d_min/max_risk_dist_km is the rational                   *)
(*     RiskNum / max_risk_dist_km, held by its numerator;                  *)
(*   - weight = length * (1 + alpha*risk) is the rational                  *)
(*     weight / max_risk_dist_km, held by its numerator, so that           *)
(*     "weight >= length" reads  weight >= length * max_risk_dist_km.      *)
(* Nodes sit on even grid steps, so that the midpoint of an edge is a grid *)
(* point and (a+b)/2 is exact.                                             *)
(***************************************************************************)
EXTENDS Integers, Sequences, FiniteSets

\* ------------------------------------------------------------------ bounds
MaxNodeId == 3
MaxWayLen == 4
MaxWays == 1
MaxLat == 5
MaxLon == 0
MaxHazards == 1

\* ------------------------------------------------------- program constants
DefaultMaxRiskDist == 50
DefaultAlpha == 5
Margin == 9
GridStep == DefaultMaxRiskDist \div 2
Infinity == 1000000000
None == 0

NodeIds == 1..MaxNodeId
Lats == 0..MaxLat
Lons == 0..MaxLon
Points == Lats \X Lons
NodePoints == {p \in Points : p[1] % 2 = 0 /\ p[2] % 2 = 0}
Alphas == {0, DefaultAlpha}
MaxRiskDists == {DefaultMaxRiskDist \div 2, DefaultMaxRiskDist}

VARIABLES
    pc,               \* position of the caller: start, fetch, add_nodes, build_edges,
                      \* add_weights, built, queried, failed
    flood_points,     \* the hazard set handed to the Graph Builder
    alpha,            \* risk amplification
    max_risk_dist_km, \* hazard influence radius, hundredths of a km
    bbox,             \* south/north/west/east of the Overpass query
    nodes,            \* the builder's dict id -> (lat, lon), in insertion order
    ways,             \* the builder's list of ways (each a list of node ids)
    G,                \* the graph: ids (insertion order), pos, edges
    risk,             \* per edge, the numerator of the risk computed for it
    start_pt, end_pt, \* arguments of the last compute_safe_path call
    start_node, end_node,
    path,             \* node ids returned by nx.shortest_path
    route,            \* coordinates returned by compute_safe_path
    err               \* the exception that ended the last call, or "none"

vars == <<pc, flood_points, alpha, max_risk_dist_km, bbox, nodes, ways, G, risk,
          start_pt, end_pt, start_node, end_node, path, route, err>>

\* ------------------------------------------------------------ arithmetic
Abs(x) == IF x < 0 THEN -x ELSE x

SetMin(S) == CHOOSE x \in S : \A y \in S : x <= y

SetMax(S) == CHOOSE x \in S : \A y \in S : x >= y

RECURSIVE SqrtSearch(_, _, _)
\* the largest r in lo..hi with r*r <= n
SqrtSearch(n, lo, hi) ==
    IF lo >= hi THEN lo
    ELSE LET mid == (lo + hi + 1) \div 2
         IN  IF mid * mid <= n THEN SqrtSearch(n, mid, hi)
             ELSE SqrtSearch(n, lo, mid - 1)

ISqrt(n) == SqrtSearch(n, 0, n)

\* Great-circle distance of two grid points, in hundredths of a km.  Over
\* the few km the grid spans the haversine formula is the plane distance to
\* well below a metre; one grid step is GridStep hundredths of a km along
\* either axis.
haversine_km(lat1, lon1, lat2, lon2) ==
    LET d_lat == lat2 - lat1
        d_lon == lon2 - lon1
    IN  IF d_lon = 0 THEN GridStep * Abs(d_lat)
        ELSE IF d_lat = 0 THEN GridStep * Abs(d_lon)
        ELSE ISqrt(GridStep * GridStep * (d_lat * d_lat + d_lon * d_lon))

min_distance_to_flood(lat, lon, fps) ==
    SetMin({haversine_km(lat, lon, f[1], f[2]) : f \in fps})

NoWeight == 0 - 1

\* ------------------------------------------------------------- nx.Graph
\* ids: the nodes in insertion order; pos: id -> <<lat, lon>>; edges: a
\* function from the unordered pair {u, v} (one element for a self-loop) to
\* its attributes; weight is NoWeight while the attribute is absent.
EmptyMap == [x \in {} |-> 0]

NewGraph == [ids |-> <<>>, pos |-> EmptyMap, edges |-> EmptyMap]

Put(f, k, v) == [x \in (DOMAIN f) \cup {k} |-> IF x = k THEN v ELSE f[x]]

Range(s) == {s[i] : i \in DOMAIN s}

add_node(g, id, p) ==
    [g EXCEPT !.ids = IF id \in Range(g.ids) THEN g.ids ELSE Append(g.ids, id),
              !.pos = Put(g.pos, id, p)]

add_edge(g, a, b, length) ==
    LET e == {a, b}
        w == IF e \in DOMAIN g.edges THEN g.edges[e].weight ELSE NoWeight
    IN  [g EXCEPT !.edges = Put(g.edges, e, [length |-> length, weight |-> w])]

\* ------------------------------------------------- Graph Builder, by loop
RECURSIVE AddNodesFrom(_, _, _)
\* for node_id, (lat, lon) in nodes.items(): G.add_node(...)
AddNodesFrom(g, nd, i) ==
    IF i > Len(nd.keys) THEN g
    ELSE AddNodesFrom(add_node(g, nd.keys[i], nd.val[nd.keys[i]]), nd, i + 1)

RECURSIVE AddWayEdgesUntilUnknown(_, _, _, _)
\* the pair loop leaving the way at the first pair with an unknown id
AddWayEdgesUntilUnknown(g, nd, refs, i) ==
    IF i + 1 > Len(refs) THEN g
    ELSE LET a == refs[i]
             b == refs[i + 1]
         IN  IF a \in Range(nd.keys) /\ b \in Range(nd.keys)
             THEN LET length == haversine_km(nd.val[a][1], nd.val[a][2],
                                             nd.val[b][1], nd.val[b][2]) * 1000
                  IN  AddWayEdgesUntilUnknown(add_edge(g, a, b, length), nd, refs, i + 1)
             ELSE g

RECURSIVE AddWayEdges(_, _, _, _)
\* for a, b in zip(refs[:-1], refs[1:]): if a in nodes and b in nodes: add_edge
AddWayEdges(g, nd, refs, i) ==
    IF i + 1 > Len(refs) THEN g
    ELSE LET a == refs[i]
             b == refs[i + 1]
         IN  IF a \in Range(nd.keys) /\ b \in Range(nd.keys)
             THEN LET length == haversine_km(nd.val[a][1], nd.val[a][2],
                                             nd.val[b][1], nd.val[b][2]) * 1000
                  IN  AddWayEdges(add_edge(g, a, b, length), nd, refs, i + 1)
             ELSE AddWayEdges(g, nd, refs, i + 1)

RECURSIVE AddEdgesFrom(_, _, _, _)
\* for w in ways: ...
AddEdgesFrom(g, nd, ws, i) ==
    IF i > Len(ws) THEN g
    ELSE AddEdgesFrom(AddWayEdges(g, nd, ws[i], 1), nd, ws, i + 1)

\* the risk taken at one end of the edge instead of its midpoint
MidpointAtOneEnd(g, e) == g.pos[SetMin(e)]

\* the midpoint of an edge: ((lat_u + lat_v)/2, (lon_u + lon_v)/2)
Midpoint(g, e) ==
    LET u == SetMin(e)
        v == SetMax(e)
    IN  <<(g.pos[u][1] + g.pos[v][1]) \div 2, (g.pos[u][2] + g.pos[v][2]) \div 2>>

\* a risk without the cut-off at max_risk_dist_km
RiskNumNoCutoff(d_min, max_risk) == max_risk - d_min

\* risk = 0 if d_min >= max_risk_dist_km else 1 - d_min/max_risk_dist_km,
\* as the numerator over max_risk_dist_km
RiskNum(d_min, max_risk) ==
    IF d_min >= max_risk THEN 0 ELSE max_risk - d_min

\* a weight that discounts risky edges: length * (1 - alpha * risk)
EdgeWeightDiscount(length, a, risk_num, max_risk) ==
    length * (max_risk - a * risk_num)

\* data["weight"] = data["length"] * (1 + alpha * risk), as the numerator
\* over max_risk_dist_km
EdgeWeight(length, a, risk_num, max_risk) ==
    length * (max_risk + a * risk_num)

EdgeRisk(g, e, fps, max_risk) ==
    LET m == Midpoint(g, e)
    IN  RiskNum(min_distance_to_flood(m[1], m[2], fps), max_risk)

\* for u, v, data in G.edges(data=True): data["weight"] = ...
AddWeights(g, fps, a, max_risk) ==
    [g EXCEPT !.edges =
        [e \in DOMAIN g.edges |->
            [g.edges[e] EXCEPT !.weight =
                EdgeWeight(g.edges[e].length, a, EdgeRisk(g, e, fps, max_risk), max_risk)]]]

\* ------------------------------------------------------ Nearest-Node Locator
RECURSIVE NearestScanLast(_, _, _, _, _, _)
\* the scan with <= for <: among equally near nodes the last one wins
NearestScanLast(g, lat, lon, i, best_node, best_dist) ==
    IF i > Len(g.ids) THEN best_node
    ELSE LET n == g.ids[i]
             d_km == haversine_km(lat, lon, g.pos[n][1], g.pos[n][2])
         IN  IF d_km <= best_dist
             THEN NearestScanLast(g, lat, lon, i + 1, n, d_km)
             ELSE NearestScanLast(g, lat, lon, i + 1, best_node, best_dist)

RECURSIVE NearestScan(_, _, _, _, _, _)
\* the loop of find_nearest_node from position i on
NearestScan(g, lat, lon, i, best_node, best_dist) ==
    IF i > Len(g.ids) THEN best_node
    ELSE LET n == g.ids[i]
             d_km == haversine_km(lat, lon, g.pos[n][1], g.pos[n][2])
         IN  IF d_km < best_dist
             THEN NearestScan(g, lat, lon, i + 1, n, d_km)
             ELSE NearestScan(g, lat, lon, i + 1, best_node, best_dist)

find_nearest_node(g, lat, lon) == NearestScan(g, lat, lon, 1, None, Infinity)

\* ---------------------------------------------------------------- Path Finder
\* nx.shortest_path(G, source, target, weight="weight"): Dijkstra's relaxation
\* from the source; among the open nodes of least distance the one inserted
\* first is settled next.  Which of several cheapest paths the library
\* returns is its own affair; nothing below depends on it.
IndexOf(s, x) == CHOOSE i \in DOMAIN s : s[i] = x

Adjacent(g, u, v) == {u, v} \in DOMAIN g.edges

\* a path search that reads the physical length instead of the risk weight
EdgeCostByLength(g, u, v) == g.edges[{u, v}].length

\* the edge attribute the search minimises: weight="weight"
EdgeCost(g, u, v) == g.edges[{u, v}].weight

RECURSIVE DijkstraLoop(_, _, _, _)
DijkstraLoop(g, dist, pred, settled) ==
    LET open == {n \in Range(g.ids) \ settled : dist[n] < Infinity}
    IN  IF open = {} THEN [dist |-> dist, pred |-> pred]
        ELSE LET least == SetMin({dist[n] : n \in open})
                 u == g.ids[SetMin({IndexOf(g.ids, n) : n \in {m \in open : dist[m] = least}})]
                 better(v) == /\ v \notin settled
                              /\ v # u
                              /\ Adjacent(g, u, v)
                              /\ dist[u] + EdgeCost(g, u, v) < dist[v]
             IN  DijkstraLoop(g,
                     [v \in DOMAIN dist |->
                         IF better(v) THEN dist[u] + EdgeCost(g, u, v) ELSE dist[v]],
                     [v \in DOMAIN pred |-> IF better(v) THEN u ELSE pred[v]],
                     settled \cup {u})

Dijkstra(g, source) ==
    DijkstraLoop(g,
        [n \in Range(g.ids) |-> IF n = source THEN 0 ELSE Infinity],
        [n \in Range(g.ids) |-> None],
        {})

RECURSIVE PathToReversed(_, _, _)
\* the predecessor chain as walked, target first
PathToReversed(pred, source, n) ==
    IF n = source THEN <<source>> ELSE <<n>> \o PathToReversed(pred, source, pred[n])

RECURSIVE PathTo(_, _, _)
PathTo(pred, source, n) ==
    IF n = source THEN <<source>> ELSE Append(PathTo(pred, source, pred[n]), n)

\* a search that answers an unreachable target with the two endpoints
shortest_path_fallback(g, source, target) ==
    IF source \notin Range(g.ids) \/ target \notin Range(g.ids)
    THEN [err |-> "NodeNotFound", path |-> <<>>]
    ELSE IF source = target
    THEN [err |-> "none", path |-> <<source>>]
    ELSE LET r == Dijkstra(g, source)
         IN  IF r.dist[target] >= Infinity
             THEN [err |-> "none", path |-> <<source, target>>]
             ELSE [err |-> "none", path |-> PathTo(r.pred, source, target)]

\* a search that finds no path from a node without edges, not even to itself
shortest_path_needs_edge(g, source, target) ==
    IF source \notin Range(g.ids) \/ target \notin Range(g.ids)
    THEN [err |-> "NodeNotFound", path |-> <<>>]
    ELSE IF \A e \in DOMAIN g.edges : source \notin e
    THEN [err |-> "NetworkXNoPath", path |-> <<>>]
    ELSE IF source = target
    THEN [err |-> "none", path |-> <<source>>]
    ELSE LET r == Dijkstra(g, source)
         IN  IF r.dist[target] >= Infinity
             THEN [err |-> "NetworkXNoPath", path |-> <<>>]
             ELSE [err |-> "none", path |-> PathTo(r.pred, source, target)]

\* the outcome of nx.shortest_path: the path, or the exception it raises
shortest_path(g, source, target) ==
    IF source \notin Range(g.ids) \/ target \notin Range(g.ids)
    THEN [err |-> "NodeNotFound", path |-> <<>>]
    ELSE IF source = target
    THEN [err |-> "none", path |-> <<source>>]
    ELSE LET r == Dijkstra(g, source)
         IN  IF r.dist[target] >= Infinity
             THEN [err |-> "NetworkXNoPath", path |-> <<>>]
             ELSE [err |-> "none", path |-> PathTo(r.pred, source, target)]

\* ------------------------------------------------------------------ inputs
\* the sequences over S of length at most n
RECURSIVE SeqsUpTo(_, _)
SeqsUpTo(S, n) ==
    IF n = 0 THEN {<<>>}
    ELSE LET shorter == SeqsUpTo(S, n - 1)
         IN  shorter \cup {Append(s, x) : s \in {t \in shorter : Len(t) = n - 1}, x \in S}

Distinct(s) == \A i, j \in DOMAIN s : i # j => s[i] # s[j]

\* what the Overpass answer parses to: the node dict and the list of ways
NodeDicts ==
    UNION {{[keys |-> k, val |-> v] : v \in [Range(k) -> NodePoints]} :
           k \in {s \in SeqsUpTo(NodeIds, MaxNodeId) : Distinct(s)}}

WayLists == SeqsUpTo(SeqsUpTo(NodeIds, MaxWayLen), MaxWays)

HazardSets == {h \in SUBSET Points : Cardinality(h) <= MaxHazards}

NoBox == [south |-> 0, north |-> 0, west |-> 0, east |-> 0]

NoDict == [keys |-> <<>>, val |-> EmptyMap]

\* ------------------------------------------------------------------ actions
\* the Graph Builder called with any hazard set, alpha and max_risk_dist_km
InitBuild ==
    /\ pc = "start"
    /\ flood_points \in HazardSets
    /\ alpha \in Alphas
    /\ max_risk_dist_km \in MaxRiskDists
    /\ bbox = NoBox
    /\ nodes = NoDict
    /\ ways = <<>>
    /\ G = NewGraph
    /\ risk = EmptyMap
    /\ start_pt = <<0, 0>>
    /\ end_pt = <<0, 0>>
    /\ start_node = None
    /\ end_node = None
    /\ path = <<>>
    /\ route = <<>>
    /\ err = "none"

\* main(), line 201: the Graph Builder called with its default alpha and
\* max_risk_dist_km
Init ==
    /\ InitBuild
    /\ alpha = DefaultAlpha
    /\ max_risk_dist_km = DefaultMaxRiskDist

\* build_flood_weighted_graph_overpass, lines 64-70: the bounding box; min()
\* and max() of an empty list raise ValueError
BoundingBox ==
    /\ pc = "start"
    /\ IF flood_points = {}
       THEN /\ err' = "ValueError"
            /\ pc' = "failed"
            /\ bbox' = bbox
       ELSE /\ bbox' = [south |-> SetMin({p[1] : p \in flood_points}) - Margin,
                        north |-> SetMax({p[1] : p \in flood_points}) + Margin,
                        west  |-> SetMin({p[2] : p \in flood_points}) - Margin,
                        east  |-> SetMax({p[2] : p \in flood_points}) + Margin]
            /\ pc' = "fetch"
            /\ err' = err
    /\ UNCHANGED <<flood_points, alpha, max_risk_dist_km, nodes, ways, G, risk,
                   start_pt, end_pt, start_node, end_node, path, route>>

\* lines 83-95: the request succeeds and its elements are sorted into nodes and ways
Fetch ==
    /\ pc = "fetch"
    /\ \E nd \in NodeDicts, ws \in WayLists :
          /\ nodes' = nd
          /\ ways' = ws
    /\ pc' = "add_nodes"
    /\ UNCHANGED <<flood_points, alpha, max_risk_dist_km, bbox, G, risk,
                   start_pt, end_pt, start_node, end_node, path, route, err>>

\* line 85: resp.raise_for_status() raises
FetchFails ==
    /\ pc = "fetch"
    /\ pc' = "failed"
    /\ err' = "HTTPError"
    /\ UNCHANGED <<flood_points, alpha, max_risk_dist_km, bbox, nodes, ways, G, risk,
                   start_pt, end_pt, start_node, end_node, path, route>>

\* lines 97-100
AddNodes ==
    /\ pc = "add_nodes"
    /\ G' = AddNodesFrom(NewGraph, nodes, 1)
    /\ pc' = "build_edges"
    /\ UNCHANGED <<flood_points, alpha, max_risk_dist_km, bbox, nodes, ways, risk,
                   start_pt, end_pt, start_node, end_node, path, route, err>>

\* lines 103-110
BuildEdges ==
    /\ pc = "build_edges"
    /\ G' = AddEdgesFrom(G, nodes, ways, 1)
    /\ pc' = "add_weights"
    /\ UNCHANGED <<flood_points, alpha, max_risk_dist_km, bbox, nodes, ways, risk,
                   start_pt, end_pt, start_node, end_node, path, route, err>>

\* lines 113-129: every edge gets its weight and the graph is returned; the
\* builder's locals nodes and ways end with the call
AddRiskWeights ==
    /\ pc = "add_weights"
    /\ G' = AddWeights(G, flood_points, alpha, max_risk_dist_km)
    /\ risk' = [e \in DOMAIN G.edges |-> EdgeRisk(G, e, flood_points, max_risk_dist_km)]
    /\ nodes' = NoDict
    /\ ways' = <<>>
    /\ pc' = "built"
    /\ UNCHANGED <<flood_points, alpha, max_risk_dist_km, bbox,
                   start_pt, end_pt, start_node, end_node, path, route, err>>

\* a query that keeps the start point in the graph as a node of its own
compute_safe_path_snapping ==
    /\ pc = "built"
    /\ \E s \in Points, t \in Points :
          LET sn == find_nearest_node(G, s[1], s[2])
              en == find_nearest_node(G, t[1], t[2])
              r == shortest_path(G, sn, en)
          IN  /\ start_pt' = s
              /\ end_pt' = t
              /\ start_node' = sn
              /\ end_node' = en
              /\ err' = r.err
              /\ path' = r.path
              /\ route' = [i \in DOMAIN r.path |-> G.pos[r.path[i]]]
              /\ G' = add_node(G, MaxNodeId + 1, s)
    /\ pc' = "queried"
    /\ UNCHANGED <<flood_points, alpha, max_risk_dist_km, bbox, nodes, ways, risk>>

\* a query let in as soon as the edges have their lengths
compute_safe_path_early ==
    /\ pc \in {"add_weights", "built"}
    /\ \E s \in Points, t \in Points :
          LET sn == find_nearest_node(G, s[1], s[2])
              en == find_nearest_node(G, t[1], t[2])
              r == shortest_path(G, sn, en)
          IN  /\ start_pt' = s
              /\ end_pt' = t
              /\ start_node' = sn
              /\ end_node' = en
              /\ err' = r.err
              /\ path' = r.path
              /\ route' = [i \in DOMAIN r.path |-> G.pos[r.path[i]]]
    /\ pc' = "queried"
    /\ UNCHANGED <<flood_points, alpha, max_risk_dist_km, bbox, nodes, ways, G, risk>>

\* compute_safe_path(G, start_lat, start_lon, end_lat, end_lon), lines 149-157
compute_safe_path ==
    /\ pc = "built"
    /\ \E s \in Points, t \in Points :
          LET sn == find_nearest_node(G, s[1], s[2])
              en == find_nearest_node(G, t[1], t[2])
              r == shortest_path(G, sn, en)
          IN  /\ start_pt' = s
              /\ end_pt' = t
              /\ start_node' = sn
              /\ end_node' = en
              /\ err' = r.err
              /\ path' = r.path
              /\ route' = [i \in DOMAIN r.path |-> G.pos[r.path[i]]]
    /\ pc' = "queried"
    /\ UNCHANGED <<flood_points, alpha, max_risk_dist_km, bbox, nodes, ways, G, risk>>

Next ==
    \/ BoundingBox
    \/ Fetch
    \/ FetchFails
    \/ AddNodes
    \/ BuildEdges
    \/ AddRiskWeights
    \/ compute_safe_path

\* main(): build the graph, then route on it
Spec == Init /\ [][Next]_vars

NextBuild ==
    \/ BoundingBox
    \/ Fetch
    \/ FetchFails
    \/ AddNodes
    \/ BuildEdges
    \/ AddRiskWeights

\* the Graph Builder alone, over all its parameters
SpecBuild == InitBuild /\ [][NextBuild]_vars

\* ------------------------------------------------- vocabulary of the claims
RECURSIVE PathCost(_, _)
\* the sum of the weights along a sequence of nodes
PathCost(g, p) ==
    IF Len(p) <= 1 THEN 0
    ELSE g.edges[{p[1], p[2]}].weight + PathCost(g, Tail(p))

AllIdSeqs == SeqsUpTo(NodeIds, MaxNodeId + 1)

\* every walk of the graph from s to t that visits at most MaxNodeId + 1 nodes
\* (every simple path is among them)
Walks(g, s, t) ==
    {p \in AllIdSeqs :
        /\ Len(p) >= 1
        /\ p[1] = s
        /\ p[Len(p)] = t
        /\ \A i \in DOMAIN p : p[i] \in Range(g.ids)
        /\ \A i \in 1..(Len(p) - 1) : Adjacent(g, p[i], p[i + 1])}

RECURSIVE Reachable(_, _)
\* the nodes joined to a node of S by edges
Reachable(g, S) ==
    LET T == S \cup {v \in Range(g.ids) : \E u \in S : Adjacent(g, u, v)}
    IN  IF T = S THEN S ELSE Reachable(g, T)

DistTo(g, n, pt) == haversine_km(pt[1], pt[2], g.pos[n][1], g.pos[n][2])

IsNearest(g, n, pt) ==
    /\ n \in Range(g.ids)
    /\ \A m \in Range(g.ids) : DistTo(g, n, pt) <= DistTo(g, m, pt)

\* the first node, in insertion order, among the nearest ones
FirstNearest(g, pt) ==
    g.ids[SetMin({i \in DOMAIN g.ids : IsNearest(g, g.ids[i], pt)})]

MidDist(g, e, fps) ==
    LET m == Midpoint(g, e)
    IN  min_distance_to_flood(m[1], m[2], fps)

Routed == pc = "queried" /\ err = "none"

\* ------------------------------------------------------------------- claims

\* C1: when the start node and the end node are connected, compute_safe_path
\* returns a route, and the sum of the weights along it is at most the sum of
\* the weights along every other path between the two nodes.
C1_RouteIsCheapest ==
    pc = "queried" =>
        /\ (Walks(G, start_node, end_node) # {}) => err = "none"
        /\ err = "none" =>
              \A p \in Walks(G, start_node, end_node) :
                  PathCost(G, path) <= PathCost(G, p)

\* the route goes round a direct edge that costs more than the two edges taken
C1_Witness ==
    /\ Routed
    /\ Len(path) = 3
    /\ Adjacent(G, start_node, end_node)
    /\ PathCost(G, path) < G.edges[{start_node, end_node}].weight

C3_EqualityOnlyWithoutRisk ==
    pc = "built" =>
        \A e \in DOMAIN G.edges :
            /\ G.edges[e].weight >= G.edges[e].length * max_risk_dist_km
            /\ (G.edges[e].weight = G.edges[e].length * max_risk_dist_km)
                   <=> (alpha = 0 \/ risk[e] = 0)

\* C3 as amended: weight >= length_m for every edge, with equality exactly when
\* alpha == 0, the edge's risk == 0 or length_m == 0.
C3_WeightAtLeastLength ==
    pc = "built" =>
        \A e \in DOMAIN G.edges :
            /\ G.edges[e].weight >= G.edges[e].length * max_risk_dist_km
            /\ (G.edges[e].weight = G.edges[e].length * max_risk_dist_km)
                   <=> (alpha = 0 \/ risk[e] = 0 \/ G.edges[e].length = 0)

\* an edge of length 0 at risk under a positive alpha, next to an edge that
\* the risk made costlier than its length
C3_Witness ==
    /\ pc = "built"
    /\ alpha > 0
    /\ \E e \in DOMAIN G.edges :
          /\ G.edges[e].length = 0
          /\ risk[e] > 0
          /\ G.edges[e].weight = 0
    /\ \E e \in DOMAIN G.edges :
          G.edges[e].weight > G.edges[e].length * max_risk_dist_km

\* C4: the Graph Builder called with an empty hazard set fails with an
\* EmptyHazardSet error before any node, edge or weight exists.
C4_EmptyHazardSetError ==
    (flood_points = {} /\ pc # "start") =>
        /\ pc = "failed"
        /\ err = "EmptyHazardSet"
        /\ G = NewGraph

\* C5: the Graph Builder never returns a graph without edges: input that
\* yields no edge ends in an EmptyGraph failure.
C5_EmptyGraphError ==
    pc = "built" => DOMAIN G.edges # {}

\* C6: when the start node and the end node lie in different connected
\* components, compute_safe_path signals that no path exists and returns no
\* route.
C6_NoPathSignalled ==
    (/\ pc = "queried"
     /\ start_node \in Range(G.ids)
     /\ end_node \in Range(G.ids)
     /\ end_node \notin Reachable(G, {start_node})) =>
        /\ err = "NetworkXNoPath"
        /\ path = <<>>
        /\ route = <<>>

\* start and end in different components of a graph that has edges
C6_Witness ==
    /\ pc = "queried"
    /\ DOMAIN G.edges # {}
    /\ start_node \in Range(G.ids)
    /\ end_node \in Range(G.ids)
    /\ end_node \notin Reachable(G, {start_node})
    /\ err = "NetworkXNoPath"

\* C7: on a graph with nodes, find_nearest_node returns a node at the least
\* distance from the query point, the first such node in insertion order; on
\* a graph of one node it returns that node for every query point.
C7_NearestFirstInOrder ==
    (pc = "queried" /\ Len(G.ids) >= 1) =>
        /\ IsNearest(G, start_node, start_pt)
        /\ IsNearest(G, end_node, end_pt)
        /\ start_node = FirstNearest(G, start_pt)
        /\ end_node = FirstNearest(G, end_pt)
        /\ Len(G.ids) = 1 => (start_node = G.ids[1] /\ end_node = G.ids[1])

\* two nodes at different coordinates tie for nearest; the one inserted first,
\* which has the larger id, is returned
C7_Witness ==
    /\ pc = "queried"
    /\ \E i, j \in DOMAIN G.ids :
          /\ i < j
          /\ G.ids[i] > G.ids[j]
          /\ G.pos[G.ids[i]] # G.pos[G.ids[j]]
          /\ IsNearest(G, G.ids[i], start_pt)
          /\ IsNearest(G, G.ids[j], start_pt)
          /\ start_node = G.ids[i]

\* C8: find_nearest_node on a graph without nodes fails with an EmptyGraph
\* error, and no null node reaches the Path Finder.
C8_EmptyGraphFromLocator ==
    (pc = "queried" /\ Len(G.ids) = 0) =>
        /\ err = "EmptyGraph"
        /\ start_node # None
        /\ end_node # None

\* C9: when start and destination resolve to the same node, compute_safe_path
\* returns without error the one-element route of that node's coordinate, of
\* cost 0, whether or not the node has an edge.
C9_SameNodeRoute ==
    (pc = "queried" /\ start_node = end_node /\ start_node \in Range(G.ids)) =>
        /\ err = "none"
        /\ path = <<start_node>>
        /\ route = <<G.pos[start_node]>>
        /\ PathCost(G, path) = 0

\* two different points resolve to the same node, which has no edge, in a
\* graph that has other nodes
C9_Witness ==
    /\ pc = "queried"
    /\ start_pt # end_pt
    /\ Len(G.ids) >= 2
    /\ start_node = end_node
    /\ start_node \in Range(G.ids)
    /\ \A e \in DOMAIN G.edges : start_node \notin e
    /\ route = <<G.pos[start_node]>>

\* C10: the risk computed for an edge's midpoint lies in [0, 1], is 0 when the
\* least distance to a hazard is >= max_risk_dist_km, and is 1 when that
\* distance is 0.
C10_RiskInUnitInterval ==
    pc = "built" =>
        \A e \in DOMAIN risk :
            /\ 0 <= risk[e]
            /\ risk[e] <= max_risk_dist_km
            /\ MidDist(G, e, flood_points) >= max_risk_dist_km => risk[e] = 0
            /\ MidDist(G, e, flood_points) = 0 => risk[e] = max_risk_dist_km

\* one graph with an edge on the hazard (risk 1), an edge beyond the radius
\* (risk 0) and an edge in between
C10_Witness ==
    /\ pc = "built"
    /\ \E e \in DOMAIN risk :
          MidDist(G, e, flood_points) = 0 /\ risk[e] = max_risk_dist_km
    /\ \E e \in DOMAIN risk :
          MidDist(G, e, flood_points) >= max_risk_dist_km /\ risk[e] = 0
    /\ \E e \in DOMAIN risk : 0 < risk[e] /\ risk[e] < max_risk_dist_km

\* the point halfway between the two ends of an edge, stated by what it is
HalfwayPoint(g, e) ==
    CHOOSE m \in Points :
        \E u \in e, v \in e :
            /\ e = {u, v}
            /\ 2 * m[1] = g.pos[u][1] + g.pos[v][1]
            /\ 2 * m[2] = g.pos[u][2] + g.pos[v][2]

\* the distance from the halfway point of an edge to the nearest hazard
HazardDist(g, e, fps) ==
    LET m == HalfwayPoint(g, e)
    IN  CHOOSE d \in {haversine_km(m[1], m[2], f[1], f[2]) : f \in fps} :
            \A f \in fps : d <= haversine_km(m[1], m[2], f[1], f[2])

\* C11: every edge of the built graph has weight = length_m * (1 + alpha * risk),
\* the risk taken from the least distance between the edge's midpoint and the
\* hazards; with alpha = 5.0 and max_risk_dist_km = 0.5 an edge whose midpoint
\* is on a hazard weighs 6 * length_m and one whose midpoint is 1 km from the
\* nearest hazard weighs length_m.
C11_WeightFormula ==
    pc = "built" =>
        \A e \in DOMAIN G.edges :
            LET d == HazardDist(G, e, flood_points)
                r == IF d >= max_risk_dist_km THEN 0 ELSE max_risk_dist_km - d
                len == G.edges[e].length
                unit == max_risk_dist_km
            IN  /\ G.edges[e].weight = len * unit + alpha * r * len
                /\ (alpha = 5 /\ unit = 50 /\ d = 0) => G.edges[e].weight = 6 * len * unit
                /\ (alpha = 5 /\ unit = 50 /\ d = 100) => G.edges[e].weight = len * unit

\* under the defaults, an edge of positive length with its midpoint on the
\* hazard weighs six times its length, and another edge of the same graph,
\* beyond the radius, weighs its length
C11_Witness ==
    /\ pc = "built"
    /\ alpha = 5
    /\ max_risk_dist_km = 50
    /\ \E e \in DOMAIN G.edges :
          /\ G.edges[e].length > 0
          /\ HazardDist(G, e, flood_points) = 0
          /\ G.edges[e].weight = 6 * G.edges[e].length * max_risk_dist_km
    /\ \E e \in DOMAIN G.edges :
          /\ G.edges[e].length > 0
          /\ HazardDist(G, e, flood_points) >= max_risk_dist_km
          /\ G.edges[e].weight = G.edges[e].length * max_risk_dist_km

\* under the defaults, an edge of positive length with its midpoint exactly
\* 1 km from the only hazard weighs its length
C11_WitnessOneKm ==
    /\ pc = "built"
    /\ alpha = 5
    /\ max_risk_dist_km = 50
    /\ \E e \in DOMAIN G.edges :
          /\ G.edges[e].length > 0
          /\ HazardDist(G, e, flood_points) = 100
          /\ G.edges[e].weight = G.edges[e].length * max_risk_dist_km

\* pair i of way k: its two ids are both keys of the node dict
KnownPair(nd, ws, k, i) ==
    /\ ws[k][i] \in Range(nd.keys)
    /\ ws[k][i + 1] \in Range(nd.keys)

PairsOf(ws) == {ki \in (DOMAIN ws) \X (1..MaxWayLen) : ki[2] + 1 <= Len(ws[ki[1]])}

\* C12: a consecutive pair of a way with an id missing from the node dict
\* yields no edge and no failure; every pair with both ids known yields its
\* edge, and every edge has both ends in the node dict.
C12_UnknownPairsSkipped ==
    /\ pc = "add_weights" =>
          /\ err = "none"
          /\ DOMAIN G.edges =
                 {{ways[ki[1]][ki[2]], ways[ki[1]][ki[2] + 1]} :
                     ki \in {x \in PairsOf(ways) : KnownPair(nodes, ways, x[1], x[2])}}
          /\ \A e \in DOMAIN G.edges : e \subseteq Range(nodes.keys)
    /\ pc \in {"add_weights", "built"} =>
          \A e \in DOMAIN G.edges : e \subseteq Range(G.ids)
    /\ pc = "failed" => (nodes = NoDict /\ ways = <<>>)

\* a way whose pair with an unknown id comes before a pair of known ids: the
\* later pair has its edge
C12_Witness ==
    /\ pc = "add_weights"
    /\ \E k \in DOMAIN ways :
          \E i, j \in 1..(Len(ways[k]) - 1) :
              /\ i < j
              /\ ~KnownPair(nodes, ways, k, i)
              /\ KnownPair(nodes, ways, k, j)
              /\ {ways[k][j], ways[k][j + 1]} \in DOMAIN G.edges
              /\ {ways[k][i], ways[k][i + 1]} \notin DOMAIN G.edges

\* every edge carries its length and its weight
FullyWeighted(g) ==
    \A e \in DOMAIN g.edges :
        /\ g.edges[e].length >= 0
        /\ g.edges[e].weight # NoWeight
        /\ g.edges[e].weight >= 0

\* C13: graph construction completes before any query runs: the graph the
\* builder returns has every node of the node dict and every edge with its
\* length and its weight, and a query reads only such a returned graph.
C13_BuildCompletesBeforeQuery ==
    [][/\ (pc = "add_weights" /\ pc' = "built") =>
             /\ G'.ids = nodes.keys
             /\ \A n \in Range(nodes.keys) : G'.pos[n] = nodes.val[n]
             /\ DOMAIN G'.edges = DOMAIN G.edges
             /\ \A e \in DOMAIN G.edges : G'.edges[e].length = G.edges[e].length
             /\ FullyWeighted(G')
       /\ (pc' = "queried" /\ pc # "queried") =>
             /\ pc = "built"
             /\ FullyWeighted(G)
             /\ start_node' = find_nearest_node(G, start_pt'[1], start_pt'[2])
      ]_vars

\* a query has run on a graph of three nodes and two or more edges, all
\* weighted
C13_Witness ==
    /\ pc = "queried"
    /\ Len(G.ids) = 3
    /\ Cardinality(DOMAIN G.edges) >= 2
    /\ FullyWeighted(G)
    /\ start_node # None

\* C14: find_nearest_node and compute_safe_path leave the graph as the Graph
\* Builder returned it, whether the query succeeds or fails: node set, node
\* coordinates, edge set, edge lengths and edge weights stay the same.
C14_QueriesLeaveGraphUnchanged ==
    [][(pc \in {"built", "queried"} \/ pc' = "queried") =>
          /\ G'.ids = G.ids
          /\ G'.pos = G.pos
          /\ DOMAIN G'.edges = DOMAIN G.edges
          /\ \A e \in DOMAIN G.edges :
                /\ G'.edges[e].length = G.edges[e].length
                /\ G'.edges[e].weight = G.edges[e].weight
      ]_vars

\* a query has returned a route over an edge that the risk made costlier
\* than its length, and the edge still carries the weight its risk gave it
C14_Witness ==
    /\ Routed
    /\ Len(path) >= 2
    /\ risk[{path[1], path[2]}] > 0
    /\ G.edges[{path[1], path[2]}].weight =
           EdgeWeight(G.edges[{path[1], path[2]}].length, alpha,
                      risk[{path[1], path[2]}], max_risk_dist_km)
    /\ G.edges[{path[1], path[2]}].weight >
           G.edges[{path[1], path[2]}].length * max_risk_dist_km

\* a query has failed on a graph that has weighted edges, and the edges still
\* carry the weights their risks gave them
C14_WitnessFailed ==
    /\ pc = "queried"
    /\ err # "none"
    /\ DOMAIN G.edges # {}
    /\ \A e \in DOMAIN G.edges :
          G.edges[e].weight =
              EdgeWeight(G.edges[e].length, alpha, risk[e], max_risk_dist_km)

=============================================================================
